---- MODULE Spec2Model ----
(***************************************************************************)
(* VoiceFlight: the Game component of src/app/components/Game.tsx (the     *)
(* second, current definition of the component, lines 194-899).            *)
(*                                                                         *)
(* JavaScript numbers are modelled in fixed point: a number n is the       *)
(* integer n * Scale, and a product with a decimal constant is rounded to  *)
(* the nearest unit (1 / Scale).                                           *)
(*                                                                         *)
(* React state set with a functional updater (setGameState(prev => ...))   *)
(* is applied in call order, so it is modelled as an immediate update.     *)
(* An async function is one action per stretch between two awaits.  A      *)
(* function of the component closes over the state of the render that      *)
(* created it: a frame callback carries the analyser its startGame saw.    *)
(*                                                                         *)
(* Spec is the component under every interleaving of its handlers, with a  *)
(* coarse environment (two frequency snapshots, two canvas sizes);         *)
(* FairSpec adds that frame callbacks and timers keep firing.              *)
(* StepSpec applies one start or one frame callback, which may throw, to   *)
(* each of a set of game states, canvas sizes, snapshots, random draws and *)
(* clock readings.  FallSpec runs one game in silence to its end.          *)
(***************************************************************************)
EXTENDS Integers, Sequences, FiniteSets, TLC

VARIABLES
    mounted,            \* the component is mounted (canvasRef.current is set)
    canvas,             \* canvas.width, canvas.height (pixels)
    gameState,          \* useState<GameState>: isPlaying, score, highScore
    analyser,           \* useState analyser (with audioContext, mediaStream) is non-null
    livePipelines,      \* media streams with live tracks and an open audio context
    setup,              \* the mount effect's setupAudio is still awaiting getUserMedia
    starts,             \* startGame calls suspended at an await, by await
    rafQueue,           \* pending requestAnimationFrame callbacks
    animationFrameRef,  \* animationFrameRef.current (0 is undefined)
    timers,             \* pending setTimeout(gameOver, 750) timers, oldest first, each
                        \* with the score at its collision (history)
    game,               \* gameLoopRef.current: plane, obstacles, lastObstacleTime
    now,                \* the last reading of Date.now(), ms
    last,               \* history, read by the properties only: the ticks survived since
                        \* the last start, the best score at a collision finalized so
                        \* far, whether a collision has halted the loop since the last start
                        \* (halted), the frame callbacks skipped so far, modulo 2
                        \* (skips), whether a startGame has shown its alert (alerted)
    probe,              \* StepSpec: the input of the step
    out                 \* StepSpec: the result of the step

vars ==
    << mounted, canvas, gameState, analyser, livePipelines, setup, starts,
       rafQueue, animationFrameRef, timers, game, now, last, probe, out >>

-----------------------------------------------------------------------------
(* Bounds of the model *)

\* frame callbacks that may run their body while the score is below MaxScore
MaxScore == 2
\* startGame calls suspended at the same time
MaxStarts == 2
\* obstacles alive at the same time in the game states StepSpec starts from
MaxObstacles == 2
\* game-over timers pending at the same time
MaxTimers == 1

\* FallSpec: the frame callbacks of one game
MaxFall == 120

\* Math.random() draws, in eighths
RandomDraws ==
    {4}

\* frequency snapshots of getByteFrequencyData (bins in 0..255): silence, a loud sound
Snapshots ==
    { <<0, 0>>, <<255, 255>> }

\* the sizes handleResize gives the canvas (4:3, at most 800 x 600)
CanvasSizes ==
    { [width |-> 800, height |-> 600],
      [width |-> 40, height |-> 30] }

-----------------------------------------------------------------------------
(* Fixed point *)

Scale ==
    100 * 100

Px(n) ==
    n * Scale

\* a * num / den, rounded to the nearest unit
MulRound(a, num, den) ==
    (2 * a * num + den) \div (2 * den)

Max(a, b) ==
    IF a >= b THEN a ELSE b

Min(a, b) ==
    IF a <= b THEN a ELSE b

RECURSIVE SumSeq(_)
SumSeq(s) ==
    IF s = << >> THEN 0 ELSE Head(s) + SumSeq(Tail(s))

-----------------------------------------------------------------------------
(* Volume sampler and flight dynamics (gameLoop, lines 687-710) *)

\* rawVolume: the mean of the bins
RawVolume(bins) ==
    MulRound(Px(SumSeq(bins)), 1, Len(bins))

\* the volume without the floor at the noise floor
VolumeUnfloored(bins) ==
    MulRound(RawVolume(bins) - Px(10), 8, 10)

\* volume = max(0, rawVolume - noiseFloor) * 0.8
Volume(bins) ==
    MulRound(Max(0, RawVolume(bins) - Px(10)), 8, 10)

\* the lift without its floor
LiftUnfloored(volume) ==
    MulRound(volume - Px(3), 2, 10)

\* lift = max(0, (volume - 3) * 0.2)
Lift(volume) ==
    Max(0, MulRound(volume - Px(3), 2, 10))

Gravity ==
    MulRound(Px(1), 25, 100)

\* the lift is added instead of subtracted
NextVelocityLiftDown(velocity, volume) ==
    Max(-Px(6), Min(Px(6), MulRound(velocity + Gravity + Lift(volume), 97, 100)))

\* no gravity is added
NextVelocityWeightless(velocity, volume) ==
    Max(-Px(6), Min(Px(6), MulRound(velocity - Lift(volume), 97, 100)))

\* velocity += gravity; velocity -= lift; velocity *= 0.97; clamp to [-6, 6]
NextVelocity(velocity, volume) ==
    Max(-Px(6), Min(Px(6), MulRound(velocity + Gravity - Lift(volume), 97, 100)))

\* y = Math.max(20, Math.min(canvas.height - 20, y))
\* only the upper edge is clamped
ClampYTopOnly(y, height) ==
    Max(Px(20), y)

ClampY(y, height) ==
    Max(Px(20), Min(Px(height - 20), y))

\* rotation += (velocity * 0.15 - rotation) * 0.1
NextRotation(rotation, velocity) ==
    rotation + MulRound(MulRound(velocity, 15, 100) - rotation, 1, 10)

\* the position is moved by the velocity the frame callback started with
DynamicsOldVelocity(plane, volume, height) ==
    LET v == NextVelocity(plane.velocity, volume)
    IN  [ x |-> plane.x,
          y |-> ClampY(plane.y + plane.velocity, height),
          velocity |-> v,
          rotation |-> NextRotation(plane.rotation, v) ]

Dynamics(plane, volume, height) ==
    LET v == NextVelocity(plane.velocity, volume)
    IN  [ x |-> plane.x,
          y |-> ClampY(plane.y + v, height),
          velocity |-> v,
          rotation |-> NextRotation(plane.rotation, v) ]

-----------------------------------------------------------------------------
(* Obstacles and collisions (gameLoop, lines 633-682 and 722-734) *)

GapHeight ==
    Px(250)

\* Math.random() * (canvas.height - gap - 100) + 50, with Math.random() = r / 8
GapPosition(r, height) ==
    MulRound(Px(height - 250 - 100), r, 8) + Px(50)

NewObstacle(r, cv) ==
    [ x |-> Px(cv.width), gapY |-> GapPosition(r, cv.height), gapHeight |-> GapHeight ]

\* planeHitbox
Hitbox(plane) ==
    [ x |-> plane.x - Px(40), y |-> plane.y - Px(20), width |-> Px(80), height |-> Px(40) ]

\* planeHitbox.y <= 0 || planeHitbox.y + planeHitbox.height >= canvas.height
HitsBoundary(hb, height) ==
    hb.y <= 0 \/ hb.y + hb.height >= Px(height)

\* obstacle.x -= 3
Advance(o) ==
    [ o EXCEPT !.x = @ - Px(3) ]

\* the test against the lower edge of the gap is left out
HitsObstacleAbove(hb, o) ==
    /\ hb.x + hb.width > o.x
    /\ hb.x < o.x + Px(50)
    /\ hb.y < o.gapY

\* the two tests of the filter callback on an (advanced) obstacle
HitsObstacle(hb, o) ==
    /\ hb.x + hb.width > o.x
    /\ hb.x < o.x + Px(50)
    /\ \/ hb.y < o.gapY
       \/ hb.y + hb.height > o.gapY + o.gapHeight

\* drawBuilding: the width of the rectangles drawn for an obstacle
BuildingWidth ==
    Px(150)

\* return obstacle.x > -50
Keeps(o) ==
    o.x > -Px(50)

\* game.obstacles.filter(...): every obstacle is advanced and tested, in order;
\* the result is the kept obstacles and whether any test set the flag
RECURSIVE FilterPass(_, _)
FilterPass(hb, obstacles) ==
    IF obstacles = << >>
    THEN [ obstacles |-> << >>, collision |-> FALSE ]
    ELSE LET o == Advance(Head(obstacles))
             rest == FilterPass(hb, Tail(obstacles))
         IN  [ obstacles |-> IF Keeps(o) THEN << o >> \o rest.obstacles ELSE rest.obstacles,
               collision |-> HitsObstacle(hb, o) \/ rest.collision ]

\* lines 633-682: the boundary test, and only without a boundary hit the filter
DetectCollision(g, height) ==
    IF HitsBoundary(Hitbox(g.plane), height)
    THEN [ obstacles |-> g.obstacles, collision |-> TRUE ]
    ELSE FilterPass(Hitbox(g.plane), g.obstacles)

\* an obstacle is spawned already when exactly 2000 ms have passed
SpawnDueAtInterval(g, t) ==
    t - g.lastObstacleTime >= 2000

\* now - game.lastObstacleTime > 2000
SpawnDue(g, t) ==
    t - g.lastObstacleTime > 2000

\* the reset game without a first obstacle
StartedGameEmpty(r, cv, t) ==
    [ plane |-> [ x |-> Px(100), y |-> Px(cv.height) \div 2, velocity |-> 0, rotation |-> 0 ],
      obstacles |-> << >>,
      lastObstacleTime |-> t ]

\* lines 574-594: the reset game, with its first obstacle
StartedGame(r, cv, t) ==
    [ plane |-> [ x |-> Px(100), y |-> Px(cv.height) \div 2, velocity |-> 0, rotation |-> 0 ],
      obstacles |-> << NewObstacle(r, cv) >>,
      lastObstacleTime |-> t ]

\* the spawned obstacle is put in front
SteppedSpawnFirst(g, cv, bins, r, t) ==
    LET det == DetectCollision(g, cv.height)
        due == SpawnDue(g, t)
    IN  [ plane |-> Dynamics(g.plane, Volume(bins), cv.height),
          obstacles |-> IF due
                        THEN << NewObstacle(r, cv) >> \o det.obstacles
                        ELSE det.obstacles,
          lastObstacleTime |-> IF due THEN t ELSE g.lastObstacleTime ]

\* gameLoopRef.current after lines 632-734 of a frame callback with bins sampled, r
\* drawn and t read from the clock
Stepped(g, cv, bins, r, t) ==
    LET det == DetectCollision(g, cv.height)
        due == SpawnDue(g, t)
    IN  [ plane |-> Dynamics(g.plane, Volume(bins), cv.height),
          obstacles |-> IF due
                        THEN Append(det.obstacles, NewObstacle(r, cv))
                        ELSE det.obstacles,
          lastObstacleTime |-> IF due THEN t ELSE g.lastObstacleTime ]

-----------------------------------------------------------------------------
(* The component *)

NoStarts ==
    [ play |-> 0, gum |-> 0, resume |-> 0 ]

InFlight ==
    starts.play + starts.gum + starts.resume

\* useRef<GameLoop>(...), line 246
InitialGame ==
    [ plane |-> [ x |-> Px(100), y |-> 0, velocity |-> 0, rotation |-> 0 ],
      obstacles |-> << >>,
      lastObstacleTime |-> 0 ]

NoProbe ==
    [ kind |-> "none" ]

Init ==
    /\ mounted = TRUE
    /\ canvas \in CanvasSizes
    /\ gameState = [ isPlaying |-> FALSE, score |-> 0, highScore |-> 0 ]
    /\ analyser = FALSE
    /\ livePipelines = 0
    /\ setup = TRUE
    /\ starts = NoStarts
    /\ rafQueue = {}
    /\ animationFrameRef = 0
    /\ timers = << >>
    /\ game = InitialGame
    /\ now = 0
    /\ last = [ survived |-> 0, best |-> 0, halted |-> FALSE, skips |-> 0,
               alerted |-> FALSE ]
    /\ probe = NoProbe
    /\ out = NoProbe

\* requestAnimationFrame: a handle no pending callback has
FreshId(queue) ==
    CHOOSE i \in 1..(Cardinality(queue) + 1) : \A cb \in queue : cb.id # i

\* cancelAnimationFrame(id); cancelling undefined or a fired handle does nothing
\* the frame stays requested
CancelNothing(queue, id) ==
    queue

Cancel(queue, id) ==
    { cb \in queue : cb.id # id }

\* Date.now(): in Spec no time passes between two readings (StepSpec reads later clocks)
ClockReadings ==
    { now }

\* what one startGame draws and reads: Math.random(), Date.now()
StartInputs ==
    IF probe.kind = "start"
    THEN { << probe.r, probe.t >> }
    ELSE { << r, t >> : r \in RandomDraws, t \in ClockReadings }

\* FallSpec: snapshots with a volume of 0 and of exactly 3, the lift threshold
SilentSnapshots ==
    { <<0, 0>>, <<13, 14, 14, 14>> }

\* FallSpec: the time between two frame callbacks, ms
FrameMs ==
    16

\* what one frame callback samples, draws and reads, and where it throws:
\* getByteFrequencyData, Math.random(), Date.now(); only StepSpec has frame
\* callbacks that throw
TickInputs ==
    IF probe.kind = "tick"
    THEN { << probe.bins, probe.r, probe.t, probe.thrown >> }
    ELSE IF probe.kind = "fall"
    THEN { << bins, r, now + FrameMs, "none" >> : bins \in SilentSnapshots, r \in RandomDraws }
    ELSE { << bins, r, t, "none" >> :
             bins \in Snapshots, r \in RandomDraws, t \in ClockReadings }

\* the frame callbacks a game may run in the model
ScoreCap ==
    IF probe.kind = "fall" THEN MaxFall ELSE MaxScore

\* handleResize -> setCanvasSize, lines 258-277
Resize ==
    /\ mounted
    /\ \E cv \in CanvasSizes :
        /\ cv # canvas
        /\ canvas' = cv
    /\ UNCHANGED << mounted, gameState, analyser, livePipelines, setup, starts,
                    rafQueue, animationFrameRef, timers, game, now, last, probe, out >>

\* the mount effect's getUserMedia resolves, lines 371-394
SetupResolved ==
    /\ setup
    /\ setup' = FALSE
    /\ IF mounted
       THEN /\ livePipelines' = livePipelines + 1
            /\ analyser' = TRUE
       ELSE \* stream.getTracks().forEach(track => track.stop())
            UNCHANGED << livePipelines, analyser >>
    /\ UNCHANGED << mounted, canvas, gameState, starts, rafQueue, animationFrameRef,
                    timers, game, now, last, probe, out >>

\* the mount effect's getUserMedia rejects, lines 395-397
SetupRejected ==
    /\ setup
    /\ setup' = FALSE
    /\ UNCHANGED << mounted, canvas, gameState, analyser, livePipelines, starts,
                    rafQueue, animationFrameRef, timers, game, now, last, probe, out >>

\* the mount effect's cleanup, lines 402-413: mediaStream and audioContext are those
\* of the first render (null), so only the pending frame is cancelled
Unmount ==
    /\ mounted
    /\ mounted' = FALSE
    /\ rafQueue' = Cancel(rafQueue, animationFrameRef)
    /\ UNCHANGED << canvas, gameState, analyser, livePipelines, setup, starts,
                    animationFrameRef, timers, game, now, last, probe, out >>

-----------------------------------------------------------------------------
(* startGame, lines 525-606 *)

\* the click on the start button, rendered only while not playing (line 820); the
\* call runs to its first await: the start sound's play() when the render it closes
\* over has an analyser, getUserMedia when it has none
StartClick ==
    /\ mounted
    /\ ~gameState.isPlaying
    /\ InFlight < MaxStarts
    /\ starts' = IF analyser
                 THEN [ starts EXCEPT !.play = @ + 1 ]
                 ELSE [ starts EXCEPT !.gum = @ + 1 ]
    /\ UNCHANGED << mounted, canvas, gameState, analyser, livePipelines, setup,
                    rafQueue, animationFrameRef, timers, game, now, last, probe, out >>

\* the frame requested before is not cancelled
BeginGameNoCancel(an) ==
    IF mounted
    THEN /\ gameState' = [ gameState EXCEPT !.isPlaying = TRUE, !.score = 0 ]
         /\ \E in \in StartInputs :
                /\ now' = in[2]
                /\ game' = StartedGame(in[1], canvas, in[2])
         /\ animationFrameRef' = FreshId(rafQueue)
         /\ rafQueue' = rafQueue \cup { [ id |-> FreshId(rafQueue), an |-> an ] }
         /\ last' = [ last EXCEPT !.survived = 0, !.halted = FALSE ]
    ELSE UNCHANGED << gameState, game, now, rafQueue, animationFrameRef, last >>

\* lines 563-601, of a startGame whose render had analyser = an
BeginGame(an) ==
    IF mounted
    THEN /\ gameState' = [ gameState EXCEPT !.isPlaying = TRUE, !.score = 0 ]
         /\ \E in \in StartInputs :
                /\ now' = in[2]
                /\ game' = StartedGame(in[1], canvas, in[2])
         /\ LET q == Cancel(rafQueue, animationFrameRef)
            IN  /\ animationFrameRef' = FreshId(q)
                /\ rafQueue' = q \cup { [ id |-> FreshId(q), an |-> an ] }
         /\ last' = [ last EXCEPT !.survived = 0, !.halted = FALSE ]
    ELSE \* canvasRef.current is null
         UNCHANGED << gameState, game, now, rafQueue, animationFrameRef, last >>

\* play() settles in the startGame calls that saw an analyser: the pending promises of
\* the one start sound settle together, and the continuations run back to back, each
\* cancelling the frame the one before requested, so that the last one stands
Played ==
    /\ starts.play > 0
    /\ starts' = [ starts EXCEPT !.play = 0 ]
    /\ BeginGame(TRUE)
    /\ UNCHANGED << mounted, canvas, analyser, livePipelines, setup, timers >>

StartPlayed ==
    Played /\ UNCHANGED << probe, out >>

\* getUserMedia resolves in a startGame that saw no analyser: lines 545-556 make a
\* pipeline; a suspended context is awaited (line 559) before the game begins
StartGumResolved ==
    /\ starts.gum > 0
    /\ livePipelines' = livePipelines + 1
    /\ analyser' = IF mounted THEN TRUE ELSE analyser
    /\ \/ /\ starts' = [ starts EXCEPT !.gum = @ - 1, !.resume = @ + 1 ]
          /\ UNCHANGED << gameState, game, now, rafQueue, animationFrameRef, last >>
       \/ /\ starts' = [ starts EXCEPT !.gum = @ - 1 ]
          /\ BeginGame(FALSE)
    /\ UNCHANGED << mounted, canvas, setup, timers, probe, out >>

\* the game begins although getUserMedia rejected
StartGumRejectedBegins ==
    /\ starts.gum > 0
    /\ starts' = [ starts EXCEPT !.gum = @ - 1 ]
    /\ BeginGame(FALSE)
    /\ UNCHANGED << mounted, canvas, analyser, livePipelines, setup, timers, probe, out >>

\* getUserMedia rejects: the catch of lines 602-605 alerts
StartGumRejected ==
    /\ starts.gum > 0
    /\ starts' = [ starts EXCEPT !.gum = @ - 1 ]
    /\ last' = [ last EXCEPT !.alerted = TRUE ]
    /\ UNCHANGED << mounted, canvas, gameState, analyser, livePipelines, setup,
                    rafQueue, animationFrameRef, timers, game, now, probe, out >>

\* context.resume() resolves
StartResumed ==
    /\ starts.resume > 0
    /\ starts' = [ starts EXCEPT !.resume = @ - 1 ]
    /\ BeginGame(FALSE)
    /\ UNCHANGED << mounted, canvas, analyser, livePipelines, setup, timers, probe, out >>

\* context.resume() rejects: the catch alerts
StartResumeRejected ==
    /\ starts.resume > 0
    /\ starts' = [ starts EXCEPT !.resume = @ - 1 ]
    /\ last' = [ last EXCEPT !.alerted = TRUE ]
    /\ UNCHANGED << mounted, canvas, gameState, analyser, livePipelines, setup,
                    rafQueue, animationFrameRef, timers, game, now, probe, out >>

-----------------------------------------------------------------------------
(* gameLoop, lines 618-785, and gameOver, lines 797-807 *)

\* the score is set before the collision is looked at
ScoreAfterAlways(gs, collision) ==
    [ gs EXCEPT !.score = @ + 1 ]

\* lines 741-780: a collision returns before the score is set
ScoreAfter(gs, collision) ==
    IF collision THEN gs ELSE [ gs EXCEPT !.score = @ + 1 ]

\* the callback that runs requests a frame before the try and another in the catch
RequestedTwice(queue, cb) ==
    (queue \ { cb }) \cup { [ id |-> cb.id, an |-> cb.an ],
                            [ id |-> cb.id + 1, an |-> cb.an ] }

\* the callback that runs requests no next frame
RequestedNothing(queue, cb) ==
    queue \ { cb }

\* line 619: the callback that runs (and so leaves the queue) requests the next
\* frame, for the same closure
Requested(queue, cb) ==
    (queue \ { cb }) \cup { [ id |-> cb.id, an |-> cb.an ] }

\* where a frame callback throws, if it does: drawImage throws on an image that failed
\* to load, in drawBuilding for the first obstacle of the filter (line 658), in
\* drawPlane (line 685), or for the explosion in the collision branch (line 753)
ThrowsAt(g, height, point) ==
    LET det == DetectCollision(g, height)
    IN  IF point = "building" /\ ~HitsBoundary(Hitbox(g.plane), height) /\ g.obstacles # << >>
        THEN "building"
        ELSE IF point = "plane"
        THEN "plane"
        ELSE IF point = "explosion" /\ det.collision
        THEN "explosion"
        ELSE "none"

\* gameLoopRef.current as the statements before the throw leave it
ThrownGame(g, cv, bins, r, t, point) ==
    IF point = "building"
    THEN \* obstacle.x -= 3 is done, the filter's result is not assigned
         [ g EXCEPT !.obstacles[1] = Advance(@) ]
    ELSE IF point = "plane"
    THEN [ g EXCEPT !.obstacles = DetectCollision(g, cv.height).obstacles ]
    ELSE Stepped(g, cv, bins, r, t)

\* a pending frame callback runs
GameLoop ==
    /\ \E cb \in rafQueue :
        LET \* line 619: the next frame is requested first
            queued == Requested(rafQueue, cb)
        IN  IF ~mounted \/ ~cb.an
            THEN \* line 621: no canvas or no analyser
                 /\ rafQueue' = queued
                 /\ animationFrameRef' = cb.id
                 /\ last' = [ last EXCEPT !.skips = 1 - @ ]
                 /\ UNCHANGED << gameState, game, now, timers >>
            ELSE \E in \in TickInputs :
                 LET thrown == ThrowsAt(game, canvas.height, in[4])
                 IN  IF thrown # "none"
                     THEN \* lines 782-784: the catch logs
                          /\ game' = ThrownGame(game, canvas, in[1], in[2], in[3], thrown)
                          /\ now' = IF thrown = "explosion" THEN in[3] ELSE now
                          /\ rafQueue' = queued
                          /\ animationFrameRef' = cb.id
                          /\ UNCHANGED << gameState, timers, last >>
                     ELSE /\ now' = in[3]
                          /\ game' = Stepped(game, canvas, in[1], in[2], in[3])
                          /\ IF DetectCollision(game, canvas.height).collision
                             THEN \* lines 767-776
                                  /\ Len(timers) < MaxTimers
                                  /\ rafQueue' = Cancel(queued, cb.id)
                                  /\ animationFrameRef' = 0
                                  /\ timers' = Append(timers, [ score |-> gameState.score ])
                                  /\ last' = [ last EXCEPT !.halted = TRUE ]
                                  /\ gameState' = ScoreAfter(gameState, TRUE)
                             ELSE \* line 780
                                  /\ gameState.score < ScoreCap
                                  /\ rafQueue' = queued
                                  /\ animationFrameRef' = cb.id
                                  /\ gameState' = ScoreAfter(gameState, FALSE)
                                  /\ last' = [ last EXCEPT !.survived = @ + 1 ]
                                  /\ UNCHANGED timers
    /\ UNCHANGED << mounted, canvas, analyser, livePipelines, setup, starts >>

Tick ==
    GameLoop /\ UNCHANGED << probe, out >>

\* a 750 ms timer fires: gameOver
GameOverTimer ==
    /\ timers # << >>
    /\ timers' = Tail(timers)
    /\ rafQueue' = Cancel(rafQueue, animationFrameRef)
    /\ animationFrameRef' = IF animationFrameRef # 0 THEN 0 ELSE animationFrameRef
    /\ gameState' = IF mounted
                    THEN [ gameState EXCEPT !.isPlaying = FALSE,
                                            !.highScore = Max(@, gameState.score) ]
                    ELSE gameState
    /\ last' = [ last EXCEPT !.best = Max(@, Head(timers).score) ]
    /\ UNCHANGED << mounted, canvas, analyser, livePipelines, setup, starts, game, now,
                    probe, out >>

Next ==
    \/ Resize
    \/ SetupResolved
    \/ SetupRejected
    \/ Unmount
    \/ StartClick
    \/ StartPlayed
    \/ StartGumResolved
    \/ StartGumRejected
    \/ StartResumed
    \/ StartResumeRejected
    \/ Tick
    \/ GameOverTimer

Spec ==
    Init /\ [][Next]_vars

\* the browser keeps running the requested frame callbacks and fires the timers
FairSpec ==
    Spec /\ WF_vars(Tick) /\ WF_vars(GameOverTimer)

-----------------------------------------------------------------------------
(* One start or one frame callback, from each of a set of game states *)

\* plane positions and velocities: at the start, at the clamps, around the gaps
StepPlanes ==
    { [ x |-> Px(100), y |-> Px(p[1]), velocity |-> Px(p[2]), rotation |-> 0 ] :
        p \in { <<300, 0>>, <<22, -6>>, <<578, 6>>, <<60, -6>>, <<80, -2>>, <<190, 0>>,
                <<195, 1>>, <<270, 6>>, <<405, 0>>, <<410, 3>> } }

\* obstacles spawned on a 600-high canvas, at the edges of the plane's column and of
\* the surface
StepObstacles ==
    { [ x |-> Px(o[1]), gapY |-> GapPosition(o[2], 600), gapHeight |-> GapHeight ] :
        o \in { <<-47, 0>>, <<-46, 4>>, <<14, 0>>, <<14, 4>>, <<143, 0>>, <<800, 4>> } }

RECURSIVE SeqsUpTo(_, _)
SeqsUpTo(S, n) ==
    IF n = 0
    THEN { << >> }
    ELSE LET shorter == SeqsUpTo(S, n - 1)
         IN  shorter \cup { Append(q, e) : q \in shorter, e \in S }

StepSizes ==
    CanvasSizes \cup { [ width |-> 376, height |-> 282 ] }

\* silence, a loud sound, a mean that gives the volume 3.2, just above the lift
\* threshold, and one that gives exactly the threshold, 3
StepSnapshots ==
    Snapshots \cup { <<13, 15>>, <<13, 14, 14, 14>>, <<4, 16>> }

StepInputs ==
    { [ kind |-> "tick", game |-> [ plane |-> p, obstacles |-> os, lastObstacleTime |-> 1000 ],
        canvas |-> cv, bins |-> b, r |-> rt[1], t |-> rt[2], thrown |-> rt[3] ] :
        p \in StepPlanes, os \in SeqsUpTo(StepObstacles, MaxObstacles), cv \in StepSizes,
        b \in StepSnapshots,
        rt \in { <<0, 3000, "none">>, <<4, 3001, "none">>, <<7, 3001, "none">>,
                 <<4, 60000, "none">>,
                 <<4, 3001, "building">>, <<4, 3001, "plane">>, <<4, 3001, "explosion">> } }
    \cup
    { [ kind |-> "start", game |-> InitialGame, canvas |-> cv, bins |-> << >>,
        r |-> r, t |-> 1000 ] :
        cv \in StepSizes, r \in { 0, 4, 7 } }

\* a running game (StepInputs of kind "tick") or an idle session (kind "start")
StepInit ==
    /\ probe \in StepInputs
    /\ out = NoProbe
    /\ mounted = TRUE
    /\ canvas = probe.canvas
    /\ gameState = [ isPlaying |-> probe.kind = "tick", score |-> 0, highScore |-> 0 ]
    /\ analyser = TRUE
    /\ livePipelines = 1
    /\ setup = FALSE
    /\ starts = [ NoStarts EXCEPT !.play = IF probe.kind = "start" THEN 1 ELSE 0 ]
    /\ rafQueue = IF probe.kind = "tick" THEN { [ id |-> 1, an |-> TRUE ] } ELSE {}
    /\ animationFrameRef = IF probe.kind = "tick" THEN 1 ELSE 0
    /\ timers = << >>
    /\ game = probe.game
    /\ now = probe.game.lastObstacleTime
    /\ last = [ survived |-> 0, best |-> 0, halted |-> FALSE, skips |-> 0,
               alerted |-> FALSE ]

\* one frame callback of the running game
StepTick ==
    /\ probe.kind = "tick"
    /\ out = NoProbe
    /\ out' = [ kind |-> "tick",
                collision |-> DetectCollision(game, canvas.height).collision,
                thrown |-> ThrowsAt(game, canvas.height, probe.thrown) ]
    /\ GameLoop
    /\ UNCHANGED probe

\* one startGame, from its await of play() on
StepStart ==
    /\ probe.kind = "start"
    /\ out = NoProbe
    /\ out' = [ kind |-> "start" ]
    /\ Played
    /\ UNCHANGED probe

StepNext ==
    \/ StepTick
    \/ StepStart

StepSpec ==
    StepInit /\ [][StepNext]_vars

-----------------------------------------------------------------------------
(* One game left to itself while every frame callback samples silence *)

FallInputs ==
    { [ kind |-> "fall", game |-> [ plane |-> p, obstacles |-> os, lastObstacleTime |-> 1000 ],
        canvas |-> cv ] :
        p \in StepPlanes, os \in SeqsUpTo(StepObstacles, 1), cv \in StepSizes }

\* a running game whose frame callback has an analyser
FallInit ==
    /\ probe \in FallInputs
    /\ out = NoProbe
    /\ mounted = TRUE
    /\ canvas = probe.canvas
    /\ gameState = [ isPlaying |-> TRUE, score |-> 0, highScore |-> 0 ]
    /\ analyser = TRUE
    /\ livePipelines = 1
    /\ setup = FALSE
    /\ starts = NoStarts
    /\ rafQueue = { [ id |-> 1, an |-> TRUE ] }
    /\ animationFrameRef = 1
    /\ timers = << >>
    /\ game = probe.game
    /\ now = probe.game.lastObstacleTime
    /\ last = [ survived |-> 0, best |-> 0, halted |-> FALSE, skips |-> 0,
               alerted |-> FALSE ]

FallNext ==
    \/ Tick
    \/ GameOverTimer
    \/ Resize

\* the browser keeps running the requested frame callbacks and fires the timers
FallSpec ==
    FallInit /\ [][FallNext]_vars /\ WF_vars(Tick) /\ WF_vars(GameOverTimer)

-----------------------------------------------------------------------------
(* Properties *)

\* StepSpec: a frame callback has run to its end
Ticked ==
    out.kind = "tick" /\ out.thrown = "none"

C3_ScoreIsTicksSurvived ==
    gameState.score = last.survived

\* two ticks survived, then a collision
C3_Witness ==
    last.halted /\ gameState.score = 2 /\ gameState.isPlaying

\* C2: the frame callback that detects a collision leaves the score alone, and the
\* gameOver its timer runs leaves the game not running, with the score the collision
\* left and the high score the larger of the previous high score and that score.
C2_Finalized ==
    [][ /\ Len(timers') > Len(timers) => gameState'.score = gameState.score
        /\ mounted /\ timers # << >> /\ timers' = Tail(timers) =>
               /\ ~gameState'.isPlaying
               /\ gameState'.score = Head(timers).score
               /\ gameState'.highScore = Max(gameState.highScore, Head(timers).score) ]_vars

\* a startGame begins a game in a mounted component
StartStep ==
    /\ mounted
    /\ \/ StartPlayed
       \/ StartResumed
       \/ StartGumResolved /\ starts'.resume = starts.resume

\* C4: the high score never decreases, a start sets the score to 0 and leaves the high
\* score alone, and after a gameOver the high score is the largest score a finished
\* game ended with.
C4_HighScore ==
    [][ /\ gameState'.highScore >= gameState.highScore
        /\ StartStep => gameState'.score = 0 /\ gameState'.highScore = gameState.highScore
        /\ mounted /\ timers # << >> /\ timers' = Tail(timers) =>
               gameState'.highScore = last'.best ]_vars

\* C10: at most one audio-capture pipeline is live.
C10_OnePipeline ==
    livePipelines <= 1

\* the obstacle a start or a frame callback has just spawned
Spawned ==
    game.obstacles[Len(game.obstacles)]

\* the obstacles a frame callback leaves, without the one it spawned
ObstaclesAfterUpdate ==
    IF SpawnDue(probe.game, probe.t)
    THEN SubSeq(game.obstacles, 1, Len(game.obstacles) - 1)
    ELSE game.obstacles

\* C5 as stated: after the dynamics of a frame callback, 20 <= y <= canvas.height - 20.
C5_YInBounds ==
    Ticked =>
        Px(20) <= game.plane.y /\ game.plane.y <= Px(canvas.height - 20)

\* C5: after the dynamics of a frame callback on a canvas at least 40 high,
\* 20 <= y <= canvas.height - 20; on a lower canvas y is 20.
C5_YInBoundsOrTop ==
    Ticked =>
        IF canvas.height >= 40
        THEN Px(20) <= game.plane.y /\ game.plane.y <= Px(canvas.height - 20)
        ELSE game.plane.y = Px(20)

\* a plane falling at full speed 22 above the lower edge is held at canvas.height - 20
C5_Witness ==
    /\ Ticked
    /\ canvas.height = 600
    /\ probe.game.plane.y = Px(578)
    /\ game.plane.y = Px(580)

\* C6: a spawned obstacle has gapY >= 50 and gapY + gapHeight <= canvas.height - 50.
C6_GapInsideSurface ==
    out.kind = "start" \/ (Ticked /\ SpawnDue(probe.game, probe.t)) =>
        /\ Spawned.gapY >= Px(50)
        /\ Spawned.gapY + Spawned.gapHeight <= Px(canvas.height - 50)

\* an obstacle is off the surface when the rectangles drawn for it are
OffSurface(o) ==
    o.x < -BuildingWidth

\* C7: a frame callback that updates the obstacles moves each 3 to the left and
\* removes exactly those that are then off the surface, x < -width.
C7_RemovedWhenOffSurface ==
    Ticked /\ ~HitsBoundary(Hitbox(probe.game.plane), canvas.height) =>
        LET moved == [ i \in DOMAIN probe.game.obstacles |->
                         [ probe.game.obstacles[i] EXCEPT !.x = @ - Px(3) ] ]
            onSurface(o) == ~OffSurface(o)
        IN  ObstaclesAfterUpdate = SelectSeq(moved, onSurface)

\* C8: detecting a collision changes no obstacle, and detecting again on what the
\* first detection left gives the same answer.
C8_DetectionIsPure ==
    Ticked =>
        /\ ObstaclesAfterUpdate = probe.game.obstacles
        /\ DetectCollision([ probe.game EXCEPT !.obstacles = ObstaclesAfterUpdate ],
                           canvas.height).collision = out.collision

\* the reference predicate: the hitbox touches or crosses the upper or lower edge of
\* the surface, or some obstacle, where the frame callback tests it, overlaps the
\* hitbox horizontally while the hitbox is not within the gap
ReferenceCollision(plane, obstacles, height) ==
    LET left == plane.x - Px(40)
        right == plane.x + Px(40)
        top == plane.y - Px(20)
        bottom == plane.y + Px(20)
    IN  \/ top <= 0
        \/ bottom >= Px(height)
        \/ \E i \in DOMAIN obstacles :
              LET x == obstacles[i].x - Px(3)
                  gapTop == obstacles[i].gapY
                  gapBottom == obstacles[i].gapY + obstacles[i].gapHeight
              IN  /\ right > x /\ left < x + Px(50)
                  /\ ~(gapTop <= top /\ bottom <= gapBottom)

C11_ReleasedOnStop ==
    [][ (mounted /\ ~mounted') \/ (~last.halted /\ last'.halted) =>
            livePipelines' = 0 ]_vars

\* C12: a game a startGame has begun does not stay running with every frame callback
\* skipped: while the component stays mounted and the game is not ended from outside,
\* a frame callback sets the score or detects a collision.
C12_StartedGameTicks ==
    (mounted /\ gameState.isPlaying /\ rafQueue # {} /\ last.survived = 0 /\ ~last.halted)
        ~> (~mounted \/ ~gameState.isPlaying \/ last.survived > 0 \/ last.halted)

\* a startGame's getUserMedia has rejected: its await ends and no pipeline is made
GumRejectedStep ==
    /\ starts'.gum = starts.gum - 1
    /\ starts'.resume = starts.resume
    /\ livePipelines' = livePipelines

\* C13: when the getUserMedia of a startGame rejects, isPlaying, score and high score,
\* the plane, the obstacles and the requested frames stay as they are, the call ends
\* without another attempt, and the alert is shown.
C13_DeniedStartsNothing ==
    [][ GumRejectedStep =>
            /\ gameState' = gameState
            /\ game' = game
            /\ rafQueue' = rafQueue /\ animationFrameRef' = animationFrameRef
            /\ timers' = timers
            /\ starts'.play = starts.play
            /\ analyser' = analyser
            /\ last'.alerted ]_vars

\* the only start so far was denied: the alert was shown, the game is idle
C13_Witness ==
    /\ last.alerted /\ mounted
    /\ starts = NoStarts /\ livePipelines = 0
    /\ ~gameState.isPlaying /\ rafQueue = {} /\ game = InitialGame

\* C14: the lift of a frame callback is never negative, and with a volume of at most 3
\* it is 0: the velocity becomes (velocity + 0.25) * 0.97, clamped to [-6, 6].
C14_NoLiftBelowThreshold ==
    Ticked =>
        LET volume == Volume(probe.bins)
            fallen == ((probe.game.plane.velocity + Scale \div 4) * 97 + 50) \div 100
        IN  /\ Lift(volume) >= 0
            /\ volume <= 3 * Scale =>
                   /\ Lift(volume) = 0
                   /\ game.plane.velocity =
                          IF fallen > 6 * Scale THEN 6 * Scale
                          ELSE IF fallen < -6 * Scale THEN -6 * Scale ELSE fallen

\* a frame callback with the volume exactly 3, from the velocity -2
C14_Witness ==
    /\ Ticked
    /\ Volume(probe.bins) = 3 * Scale
    /\ probe.game.plane.velocity = -2 * Scale
    /\ game.plane.velocity = -16975

\* clamp(x, lo, hi) = max(lo, min(hi, x))
Clamp(x, lo, hi) ==
    IF x > hi
    THEN IF hi > lo THEN hi ELSE lo
    ELSE IF x < lo THEN lo ELSE x

\* C15: one frame callback leaves velocity' = clamp((velocity + 0.25 - lift) * 0.97,
\* -6, 6) and then y' = clamp(y + velocity', 20, canvas.height - 20).
C15_DynamicsStep ==
    Ticked =>
        LET volume == Volume(probe.bins)
            lift == IF volume > 3 * Scale
                    THEN ((volume - 3 * Scale) * 2 + 5) \div 10
                    ELSE 0
            v == Clamp(((probe.game.plane.velocity + Scale \div 4 - lift) * 97 + 50) \div 100,
                       -6 * Scale, 6 * Scale)
        IN  /\ game.plane.velocity = v
            /\ game.plane.y = Clamp(probe.game.plane.y + v, 20 * Scale,
                                    (canvas.height - 20) * Scale)

\* canvas height 600, y = 300, velocity 0, volume 0: velocity 0.2425, y 300.2425
C15_Witness ==
    /\ Ticked
    /\ canvas.height = 600
    /\ probe.game.plane.y = 300 * Scale /\ probe.game.plane.velocity = 0
    /\ Volume(probe.bins) = 0
    /\ game.plane.velocity = 2425
    /\ game.plane.y = 3002425

C17_LouderIsNotLower ==
    Ticked =>
        \A louder \in StepSnapshots :
            RawVolume(louder) >= RawVolume(probe.bins) =>
                LET other == Dynamics(probe.game.plane, Volume(louder), canvas.height)
                IN  other.y <= game.plane.y /\ other.velocity <= game.plane.velocity

\* a frame callback that sampled the volume 3.2, which a loud snapshot would have
\* left strictly higher
C17_Witness ==
    /\ Ticked
    /\ probe.bins = <<13, 15>>
    /\ canvas.height = 600
    /\ game.plane.velocity = 2037
    /\ Dynamics(probe.game.plane, Volume(<<255, 255>>), canvas.height).y < game.plane.y

\* C18: a frame callback that finds no canvas or no analyser leaves the plane, the
\* obstacles, the last spawn time, the score, the high score and isPlaying as they
\* are, arms no timer, and leaves the next frame requested.
C18_SkippedTickIsNoOp ==
    [][ last'.skips # last.skips =>
            /\ game' = game
            /\ gameState' = gameState
            /\ timers' = timers
            /\ \E cb \in rafQueue' : cb.id = animationFrameRef' ]_vars

\* a frame callback of a running game in a mounted component was skipped
C18_Witness ==
    /\ last.skips = 1
    /\ mounted /\ gameState.isPlaying
    /\ rafQueue = { [ id |-> animationFrameRef, an |-> FALSE ] }

\* C19: a frame callback that throws leaves the game state, and so the score, as it
\* is, arms no timer, and leaves exactly one frame requested, the one whose handle is
\* in animationFrameRef.
C19_ThrownTickKeepsOneFrame ==
    out.kind = "tick" /\ out.thrown # "none" =>
        /\ gameState.score = 0 /\ gameState.isPlaying
        /\ timers = << >>
        /\ Cardinality(rafQueue) = 1
        /\ \E cb \in rafQueue : cb.id = animationFrameRef

\* drawBuilding threw: the first obstacle has moved, the plane has not
C19_Witness ==
    /\ out.kind = "tick" /\ out.thrown = "building"
    /\ game.plane = probe.game.plane
    /\ game.obstacles[1].x = probe.game.obstacles[1].x - 3 * Scale
    /\ Cardinality(rafQueue) = 1

\* C20: at most one frame callback is pending, and it is the one whose handle is in
\* animationFrameRef.
C20_OneFramePending ==
    /\ Cardinality(rafQueue) <= 1
    /\ \A cb \in rafQueue : cb.id = animationFrameRef

\* a startGame that was still awaiting has begun a game while the timer of the game
\* before is pending: one frame is requested
C20_Witness ==
    /\ mounted /\ timers # << >>
    /\ Cardinality(rafQueue) = 1
    /\ gameState.isPlaying /\ ~last.halted

\* C21: the collision a frame callback detects is the reference predicate of the plane
\* as the dynamics of that same callback leave it and of the obstacles as that
\* callback moves them.
C21_CollisionOnNewPosition ==
    Ticked =>
        out.collision = ReferenceCollision(game.plane, probe.game.obstacles, canvas.height)

\* C22: a frame callback run more than 2000 ms after the last spawn (or the start)
\* appends exactly one obstacle, at the right edge, and sets lastObstacleTime to its
\* clock reading; otherwise it appends none and leaves lastObstacleTime.
C22_SpawnByWallClock ==
    Ticked =>
        LET elapsed == probe.t - probe.game.lastObstacleTime
            kept == Len(DetectCollision(probe.game, canvas.height).obstacles)
        IN  IF elapsed > 2000
            THEN /\ Len(game.obstacles) = kept + 1
                 /\ game.obstacles[kept + 1].x = canvas.width * Scale
                 /\ game.lastObstacleTime = probe.t
            ELSE /\ Len(game.obstacles) = kept
                 /\ game.lastObstacleTime = probe.game.lastObstacleTime

\* the first frame callback after 59 s without one: one obstacle is spawned
C22_Witness ==
    /\ Ticked
    /\ probe.t - probe.game.lastObstacleTime = 59000
    /\ probe.game.obstacles = << >>
    /\ Len(game.obstacles) = 1
    /\ game.lastObstacleTime = 60000

\* C23: the obstacles a frame callback leaves are obstacles it started with, in the
\* order they had (moved 3 to the left, unless the plane is at the upper or lower
\* edge and the obstacles are not updated), followed by the obstacle it spawned, if any.
C23_SpawnOrderKept ==
    Ticked =>
        LET before == probe.game.obstacles
            spawned == IF probe.t - probe.game.lastObstacleTime > 2000 THEN 1 ELSE 0
            kept == Len(game.obstacles) - spawned
            moved == IF HitsBoundary(Hitbox(probe.game.plane), canvas.height)
                     THEN 0
                     ELSE 3 * Scale
        IN  /\ kept >= 0
            /\ spawned = 1 => game.obstacles[kept + 1].x = canvas.width * Scale
            /\ \E f \in [ 1..kept -> 1..Len(before) ] :
                  /\ \A i \in 1..kept : \A j \in 1..kept : i < j => f[i] < f[j]
                  /\ \A i \in 1..kept :
                        game.obstacles[i] = [ before[f[i]] EXCEPT !.x = @ - moved ]

\* two different obstacles are kept in their order and a third is spawned behind them
C23_Witness ==
    /\ Ticked
    /\ Len(probe.game.obstacles) = 2
    /\ probe.game.obstacles[1] # probe.game.obstacles[2]
    /\ Len(game.obstacles) = 3
    /\ game.obstacles[1].x = probe.game.obstacles[1].x - 3 * Scale
    /\ game.obstacles[2].x = probe.game.obstacles[2].x - 3 * Scale
    /\ game.obstacles[3].x = canvas.width * Scale

\* C24: a startGame that reaches its reset in a mounted component leaves the plane at
\* x = 100, y = canvas.height / 2 with velocity 0 and rotation 0, exactly one obstacle,
\* at the right edge, lastObstacleTime at its clock reading, the score 0 and
\* isPlaying true, whatever the game before left.
C24_StartResets ==
    [][ StartStep =>
            /\ game'.plane = [ x |-> 100 * Scale, y |-> (canvas.height * Scale) \div 2,
                               velocity |-> 0, rotation |-> 0 ]
            /\ Len(game'.obstacles) = 1
            /\ game'.obstacles[1].x = canvas.width * Scale
            /\ game'.obstacles[1].gapHeight = 250 * Scale
            /\ game'.lastObstacleTime = now'
            /\ gameState'.score = 0
            /\ gameState'.isPlaying ]_vars

\* a game begun after an earlier game was finalized with a score
C24_Witness ==
    /\ mounted /\ gameState.isPlaying
    /\ gameState.score = 0 /\ gameState.highScore > 0
    /\ last.survived = 0 /\ ~last.halted
    /\ Len(game.obstacles) = 1 /\ game.plane.velocity = 0
    /\ game.plane.y = (canvas.height * Scale) \div 2

\* C25: the volume of a frame callback is max(0, mean(bins) - 10) * 0.8: it is never
\* negative, it is 0 when the mean of the bins is at most 10, and it is the volume the
\* velocity of the callback is computed from.
C25_VolumeFormula ==
    Ticked =>
        LET bins == probe.bins
            total == SumSeq(bins)
            count == Len(bins)
            excess == total - 10 * count
            expected == IF excess <= 0
                        THEN 0
                        ELSE (2 * excess * 8 * Scale + 10 * count) \div (2 * 10 * count)
        IN  /\ \A i \in 1..count : bins[i] \in 0..255
            /\ Volume(bins) = expected
            /\ Volume(bins) >= 0
            /\ total <= 10 * count => Volume(bins) = 0
            /\ game.plane.velocity = NextVelocity(probe.game.plane.velocity, expected)

\* a frame callback whose bins are not silent and have a mean of exactly 10
C25_Witness ==
    /\ Ticked
    /\ probe.bins = <<4, 16>>
    /\ Volume(probe.bins) = 0
    /\ probe.game.plane.velocity = 0
    /\ game.plane.velocity = 2425

\* C26: while a gameOver timer is pending in a mounted component the game stays
\* running and no startGame begins a game, and the timer fires in the game whose
\* collision armed it: the loop is still halted and the score is the one the collision
\* left.
C26_OneFinalizationPerCollision ==
    [][ mounted /\ timers # << >> =>
            /\ gameState.isPlaying
            /\ ~StartStep
            /\ timers' = Tail(timers) =>
                   /\ last.halted
                   /\ gameState.score = Head(timers).score ]_vars

====
